---- MODULE Spec2Model ----
(***************************************************************************)
(* State-machine model of src/src/shared/eyetracking.py and src/main.py:   *)
(* the in-process EyeTracker thread, the EyeTrackerClient thread that      *)
(* talks to the external pupil service, and the EyetrackerCalibration      *)
(* task, and the task loop of main().  One behaviour follows one of the    *)
(* four (variable `mode'); the others stay in their constructed state.     *)
(*                                                                         *)
(* Conventions: a pupil confidence is counted in tenths (0.4 is 4);        *)
(* "None" is Python's None; an attribute that was never assigned is        *)
(* "unset" (reading it raises AttributeError).                             *)
(***************************************************************************)
EXTENDS Integers, Sequences, FiniteSets, TLC

VARIABLES mode, et, ec, cr, mn

vars == <<mode, et, ec, cr, mn>>

\* ------------------------------------------------------------------ bounds
\* frames the camera delivers in one behaviour
MaxFrames == 2
\* calls of join() in one behaviour
MaxJoins == 2
\* messages the service publishes in one behaviour
MaxMsgs == 2
\* marker sites shown by the calibration task (the source has 10)
NumSites == 2
\* frames a task of main() yields before it is over
MaxTaskFrames == 2
\* frames the calibration task yields while it waits for the hotkey
MaxWaitFrames == 1

\* ------------------------------------------------------- program constants
MIN_CALIBRATION_SAMPLES == 100
FRAME_WIDTH == 640
FRAME_HEIGHT == 480
MARKER_DURATION_FRAMES == 240
CALIBRATION_LEAD_IN == 20
CALIBRATION_LEAD_OUT == 20
\* PUPIL_CONFIDENCE_THRESHOLD = .4, in tenths
PUPIL_CONFIDENCE_THRESHOLD == 4

\* Python's None where a dict is expected, and an attribute never assigned
None == [py |-> "None"]
Unset == [py |-> "unset"]
NoArgs == <<>>

\* ------------------------------------------------------------------ inputs
\* what Detector_2D.detect returns for a frame: a pupil dict
PupilSamples ==
    { [norm_pos |-> 1, diameter |-> 0, confidence |-> 0],
      [norm_pos |-> 2, diameter |-> 30, confidence |-> 9] }

\* dataset sizes handed to calibrate
DatasetSizes ==
    {0, MIN_CALIBRATION_SAMPLES - 1, MIN_CALIBRATION_SAMPLES,
     MIN_CALIBRATION_SAMPLES + 1}

\* rectangles (lX, lY, uX, uY) handed to set_roi by a caller
RoiArgs ==
    { <<0, 0, 320, 480>>, <<320, 0, 960, 480>>,
      <<320, 0, 320, 480>>, <<320, 0, 0, 480>>,
      <<0, 480, 320, 0>>, <<0, 480, 320, 480>> }

\* mouse positions in eye-window coordinates (origin at the centre)
MousePositions == { <<-320, -240>>, <<400, 300>> }

\* ------------------------------------------------------ EyeTracker.set_roi
RoiRejectedAnd(roi_width, roi_height) == roi_width <= 0 /\ roi_height <= 0

\* the early return of set_roi
RoiRejected(roi_width, roi_height) == roi_width <= 0 \/ roi_height <= 0

\* set_roi on the pair (roi, _roi_stim); the state after the call
SetRoi(s, lX, lY, uX, uY) ==
    LET roi_width == uX - lX
        roi_height == uY - lY
    IN  IF RoiRejected(roi_width, roi_height)
        THEN s
        ELSE [s EXCEPT
                !.roi = <<lX, lY, uX, uY>>,
                !.roi_stim =
                    [pos |-> <<lX + (roi_width - FRAME_WIDTH) \div 2,
                               lY + (roi_height - FRAME_HEIGHT) \div 2>>,
                     width |-> roi_width,
                     height |-> roi_height]]

Min(a, b) == IF a < b THEN a ELSE b
Max(a, b) == IF a > b THEN a ELSE b
Clip(v, lo, hi) == Min(Max(v, lo), hi)

\* the rectangle run() hands to set_roi when the mouse button is released:
\* np.sort of the two corners + half the frame size, clipped to the frame
MouseRect(init_pos, end_pos) ==
    << Clip(Min(init_pos[1], end_pos[1]) + FRAME_WIDTH \div 2, 0, FRAME_WIDTH),
       Clip(Min(init_pos[2], end_pos[2]) + FRAME_HEIGHT \div 2, 0, FRAME_HEIGHT),
       Clip(Max(init_pos[1], end_pos[1]) + FRAME_WIDTH \div 2, 0, FRAME_WIDTH),
       Clip(Max(init_pos[2], end_pos[2]) + FRAME_HEIGHT \div 2, 0, FRAME_HEIGHT) >>

\* ------------------------------------------------------------ shared state
WithLockExitLate(lock) == lock

\* the end of a `with self.lock:' block of a thread: the lock is released
\* before the statement that follows the block
WithLockExit(lock) == "free"

PublishTorn(old, new) ==
    IF old = None THEN new ELSE [new EXCEPT !.confidence = old.confidence]

\* `self.pupils = pupils': the attribute is rebound to the detector's dict
Publish(old, new) == new

TooFewOffByOne(n) == n < MIN_CALIBRATION_SAMPLES - 1

\* the size test at the top of both calibrate methods
TooFew(n) == n < MIN_CALIBRATION_SAMPLES

\* state of the EyeTracker object right after __init__
EtInit ==
    [ started |-> FALSE,          \* Thread.start() was called
      tpc |-> "idle",             \* position of the run() thread
      stoprequest |-> FALSE,
      lock |-> "free",
      pupils |-> None,
      detected |-> None,          \* update()'s local `pupils'
      map_fn |-> "unset",
      calib_params |-> "unset",
      pos_cal |-> Unset,
      frame_ready |-> FALSE,      \* the device is readable (select returns)
      delivered |-> 0,            \* frames the camera produced so far
      frame_index |-> -1,
      failed_frames |-> 0,        \* frames whose capture or detection failed
      videowriter |-> "unset",    \* "open" | "closed"
      written |-> 0,              \* frames written to the video
      logged |-> 0,               \* lines written to the .log file
      videocap_closes |-> 0,
      videowriter_closes |-> 0,
      roi |-> <<0, 0, FRAME_WIDTH, FRAME_HEIGHT>>,
      roi_stim |-> [pos |-> <<0, 0>>, width |-> FRAME_WIDTH,
                    height |-> FRAME_HEIGHT],
      mouse_pressed |-> FALSE,
      init_pos |-> NoArgs,
      targ |-> NoArgs,            \* arguments of run()'s pending set_roi
      rpc |-> "idle",             \* position of the render (main) thread
      arg |-> NoArgs,             \* arguments of the render thread's call
      published |-> {},           \* every dict update() has published
      ret |-> Unset,              \* the value get_pupil() is returning
      joins |-> 0,                \* join() calls begun
      join_returns |-> 0,         \* join() calls that returned normally
      error |-> "none" ]          \* exception raised into the render thread

\* ---------------------------------------------- EyeTracker: the run() thread
\* main.py: eyetracker.start()
EtStart ==
    /\ mode = "engine"
    /\ et.rpc = "idle"
    /\ ~et.started
    /\ et' = [et EXCEPT !.started = TRUE, !.tpc = "open"]
    /\ UNCHANGED <<mode, ec, cr, mn>>

\* run(): open the video writer, start the capture
EtRunOpen ==
    /\ mode \in {"engine", "main"}
    /\ et.tpc = "open"
    /\ et' = [et EXCEPT !.videowriter = "open", !.mouse_pressed = FALSE,
                        !.tpc = "while"]
    /\ UNCHANGED <<mode, ec, cr, mn>>

\* the camera makes a frame available
EtFrameArrives ==
    /\ mode \in {"engine", "main"}
    /\ ~et.frame_ready
    /\ et.delivered < MaxFrames
    /\ et.videocap_closes = 0
    /\ et' = [et EXCEPT !.frame_ready = TRUE, !.delivered = @ + 1]
    /\ UNCHANGED <<mode, ec, cr, mn>>

\* `while not self.stoprequest.isSet()'
EtRunWhile ==
    /\ mode \in {"engine", "main"}
    /\ et.tpc = "while"
    /\ et' = [et EXCEPT !.tpc = IF et.stoprequest THEN "done" ELSE "select"]
    /\ UNCHANGED <<mode, ec, cr, mn>>

\* update(): select blocks until the device is readable, then the frame is
\* read; a frame that cannot be read or reshaped raises out of update()
EtUpdateCapture ==
    /\ mode \in {"engine", "main"}
    /\ et.tpc = "select"
    /\ et.frame_ready
    /\ \E ok \in BOOLEAN :
         et' = [et EXCEPT !.frame_ready = FALSE,
                          !.frame_index = @ + 1,
                          !.failed_frames = IF ok THEN @ ELSE @ + 1,
                          !.tpc = IF ok THEN "detect" ELSE "crashed"]
    /\ UNCHANGED <<mode, ec, cr, mn>>

\* update(): self._detector.detect; an exception of the detector propagates
EtUpdateDetect ==
    /\ mode \in {"engine", "main"}
    /\ et.tpc = "detect"
    /\ \/ \E p \in PupilSamples :
            et' = [et EXCEPT !.detected = p, !.tpc = "lock"]
       \/ et' = [et EXCEPT !.failed_frames = @ + 1, !.tpc = "crashed"]
    /\ UNCHANGED <<mode, ec, cr, mn>>

\* update(): `with self.lock:'
EtUpdateLock ==
    /\ mode \in {"engine", "main"}
    /\ et.tpc = "lock"
    /\ et.lock = "free"
    /\ et' = [et EXCEPT !.lock = "tracker", !.tpc = "assign"]
    /\ UNCHANGED <<mode, ec, cr, mn>>

\* update(): `self.pupils = pupils'
EtUpdateAssign ==
    /\ mode \in {"engine", "main"}
    /\ et.tpc = "assign"
    /\ et' = [et EXCEPT !.pupils = Publish(et.pupils, et.detected),
                        !.published = @ \cup {et.detected},
                        !.detected = None,
                        !.tpc = "map"]
    /\ UNCHANGED <<mode, ec, cr, mn>>

\* update(): `if hasattr(self,'map_fn'): self.pos_cal = self.map_fn(...)',
\* then the lock is released; the fitted polynomial may yield nan
EtUpdateMap ==
    /\ mode \in {"engine", "main"}
    /\ et.tpc = "map"
    /\ \E g \in {[x |-> et.pupils.norm_pos], [nan |-> TRUE]} :
         et' = [et EXCEPT !.pos_cal = IF et.map_fn = "unset" THEN @ ELSE g,
                          !.lock = WithLockExit(@),
                          !.tpc = "write"]
    /\ UNCHANGED <<mode, ec, cr, mn>>

\* update(): self._videowriter.writeFrame
EtUpdateWrite ==
    /\ mode \in {"engine", "main"}
    /\ et.tpc = "write"
    /\ et' = [et EXCEPT !.written = @ + 1, !.tpc = "log"]
    /\ UNCHANGED <<mode, ec, cr, mn>>

\* run(): the log line; with map_fn present it formats self.pos_cal
EtRunLog ==
    /\ mode \in {"engine", "main"}
    /\ et.tpc = "log"
    /\ et' = IF et.map_fn # "unset" /\ et.pos_cal = Unset
             THEN [et EXCEPT !.tpc = "crashed"]
             ELSE [et EXCEPT !.logged = @ + 1, !.tpc = "mouse"]
    /\ UNCHANGED <<mode, ec, cr, mn>>

\* run(): the mouse drags the region of interest; on release set_roi is
\* called with the sorted, clipped corners
EtRunMouse ==
    /\ mode \in {"engine", "main"}
    /\ et.tpc = "mouse"
    /\ \E pressed \in BOOLEAN, inside \in BOOLEAN, pos \in MousePositions :
         et' =
           IF pressed
           THEN IF inside
                THEN [et EXCEPT
                        !.init_pos = IF et.mouse_pressed THEN @ ELSE pos,
                        !.mouse_pressed = TRUE,
                        !.tpc = "draw"]
                ELSE [et EXCEPT !.tpc = "draw"]
           ELSE IF et.mouse_pressed
                THEN [et EXCEPT !.mouse_pressed = FALSE,
                                !.init_pos = NoArgs,
                                !.targ = MouseRect(et.init_pos, pos),
                                !.tpc = "set_roi"]
                ELSE [et EXCEPT !.tpc = "draw"]
    /\ UNCHANGED <<mode, ec, cr, mn>>

\* run(): the body of the set_roi call made on mouse release
EtRunSetRoi ==
    /\ mode \in {"engine", "main"}
    /\ et.tpc = "set_roi"
    /\ et' = [SetRoi(et, et.targ[1], et.targ[2], et.targ[3], et.targ[4])
                EXCEPT !.tpc = "draw"]
    /\ UNCHANGED <<mode, ec, cr, mn>>

\* run(): self.draw() shows the frame, the region and the pupil ellipse
EtRunDraw ==
    /\ mode \in {"engine", "main"}
    /\ et.tpc = "draw"
    /\ et' = [et EXCEPT !.targ = NoArgs, !.tpc = "while"]
    /\ UNCHANGED <<mode, ec, cr, mn>>

\* ------------------------------------------- EyeTracker: the render thread
\* get_pupil(): `with self.lock: return self.pupils'
EtGetPupil ==
    /\ mode = "engine"
    /\ et.rpc = "idle"
    /\ et.lock = "free"
    /\ et' = [et EXCEPT !.ret = et.pupils, !.rpc = "get_pupil"]
    /\ UNCHANGED <<mode, ec, cr, mn>>

\* a call of the render thread returns to its caller
EtReturn ==
    /\ mode \in {"engine", "main"}
    /\ et.rpc \in {"get_pupil", "set_roi_return", "calibrate_return",
                   "draw_none", "draw_marker"}
    /\ et' = [et EXCEPT !.ret = Unset, !.arg = NoArgs, !.rpc = "idle"]
    /\ UNCHANGED <<mode, ec, cr, mn>>

\* set_roi is called with a rectangle of the caller's choice
EtSetRoiCall ==
    /\ mode = "engine"
    /\ et.rpc = "idle"
    /\ \E a \in RoiArgs :
         et' = [et EXCEPT !.arg = a, !.rpc = "set_roi"]
    /\ UNCHANGED <<mode, ec, cr, mn>>

\* the body of set_roi
EtSetRoi ==
    /\ mode = "engine"
    /\ et.rpc = "set_roi"
    /\ et' = [SetRoi(et, et.arg[1], et.arg[2], et.arg[3], et.arg[4])
                EXCEPT !.rpc = "set_roi_return"]
    /\ UNCHANGED <<mode, ec, cr, mn>>

\* calibrate is called with two lists of n entries each
EtCalibrateCall ==
    /\ mode = "engine"
    /\ et.rpc = "idle"
    /\ \E n \in DatasetSizes :
         et' = [et EXCEPT !.arg = <<n, n>>, !.rpc = "calibrate"]
    /\ UNCHANGED <<mode, ec, cr, mn>>

\* calibrate(all_refs_per_flip, all_pupils_normpos): returns at once below
\* the minimum size, else fits the polynomial and binds map_fn
EtCalibrate ==
    /\ mode = "engine"
    /\ et.rpc = "calibrate"
    /\ et' = IF TooFew(et.arg[1])
             THEN [et EXCEPT !.rpc = "calibrate_return"]
             ELSE [et EXCEPT !.map_fn = "fitted",
                             !.calib_params = "fitted",
                             !.rpc = "calibrate_return"]
    /\ UNCHANGED <<mode, ec, cr, mn>>

\* draw_gazepoint(): `if hasattr(self,'map_fn')', else nothing is done
DrawGazepointCall(s) ==
    [s EXCEPT !.rpc = IF s.map_fn = "unset" THEN "draw_none"
                      ELSE "draw_lock"]

\* a caller of its own calls draw_gazepoint
EtDrawGazepoint ==
    /\ mode = "engine"
    /\ et.rpc = "idle"
    /\ et' = DrawGazepointCall(et)
    /\ UNCHANGED <<mode, ec, cr, mn>>

\* draw_gazepoint(): `with self.lock: pos_cal = self.pos_cal'; an unset
\* pos_cal raises AttributeError; a nan position returns without drawing
EtDrawGazepointRead ==
    /\ mode \in {"engine", "main"}
    /\ et.rpc = "draw_lock"
    /\ et.lock = "free"
    /\ et' = IF et.pos_cal = Unset
             THEN [et EXCEPT !.error = "draw_gazepoint", !.rpc = "raised"]
             ELSE IF et.pos_cal = [nan |-> TRUE]
                  THEN [et EXCEPT !.rpc = "draw_none"]
                  ELSE [et EXCEPT !.rpc = "draw_marker"]
    /\ UNCHANGED <<mode, ec, cr, mn>>

\* join(): `self.stoprequest.set()'
EtJoinSet ==
    /\ mode = "engine"
    /\ et.rpc = "idle"
    /\ et.joins < MaxJoins
    /\ et' = [et EXCEPT !.stoprequest = TRUE, !.joins = @ + 1,
                        !.rpc = "join_thread"]
    /\ UNCHANGED <<mode, ec, cr, mn>>

\* join(): Thread.join raises RuntimeError on a thread that was never
\* started, and otherwise blocks until run() has ended
EtJoinThread ==
    /\ mode = "engine"
    /\ et.rpc = "join_thread"
    /\ \/ /\ ~et.started
          /\ et' = [et EXCEPT !.error = "join", !.rpc = "raised"]
       \/ /\ et.started
          /\ et.tpc \in {"done", "crashed"}
          /\ et' = [et EXCEPT !.rpc = "join_release"]
    /\ UNCHANGED <<mode, ec, cr, mn>>

\* join(): self.release() closes the capture device and the video writer
EtJoinRelease ==
    /\ mode = "engine"
    /\ et.rpc = "join_release"
    /\ et' = [et EXCEPT !.videocap_closes = @ + 1,
                        !.videowriter_closes = @ + 1,
                        !.videowriter = "closed",
                        !.join_returns = @ + 1,
                        !.rpc = "idle"]
    /\ UNCHANGED <<mode, ec, cr, mn>>

\* the steps of the run() thread, and of a join() in progress
EtTrackerStep ==
    \/ EtRunOpen \/ EtRunWhile \/ EtUpdateCapture \/ EtUpdateDetect
    \/ EtUpdateLock \/ EtUpdateAssign \/ EtUpdateMap \/ EtUpdateWrite
    \/ EtRunLog \/ EtRunMouse \/ EtRunSetRoi \/ EtRunDraw

EtJoinStep == EtJoinThread \/ EtJoinRelease

\* ======================================================= EyeTrackerClient
\* what the service publishes on the data channel: (topic, payload)
Messages ==
    { [topic |-> t, norm_pos |-> p.norm_pos, diameter |-> p.diameter,
       confidence |-> p.confidence] :
        t \in {"pupil", "gaze"}, p \in PupilSamples }

\* the payload dict `tmp' of a message
Payload(m) ==
    [norm_pos |-> m.norm_pos, diameter |-> m.diameter,
     confidence |-> m.confidence]

IsAnyTopic(topic) == topic \in {"pupil", "gaze"}

\* `topic.startswith('gaze')'
IsGazeTopic(topic) == topic = "gaze"

\* state of the EyeTrackerClient object right after __init__: the service
\* process runs and has answered the eye_process.should_start request
EcInit ==
    [ started |-> FALSE,
      tpc |-> "idle",             \* position of the run() thread
      stoprequest |-> FALSE,
      lock |-> "free",
      pupil |-> None,
      gaze |-> None,
      recording_started |-> FALSE,
      msg |-> None,               \* run()'s locals (topic, tmp)
      inbox |-> None,             \* message waiting in the subscription
      received |-> <<>>,          \* messages monitor.recv() has returned
      delivered |-> 0,            \* messages the service has published
      gaze_file |-> <<>>,         \* payloads written to the .pldata file
      awaiting |-> <<>>,          \* requests sent and not yet answered
      sent |-> <<>>,              \* recording / shutdown requests, in order
      pipelined |-> FALSE,        \* a request went out over a pending one
      misdelivered |-> FALSE,     \* a reply was taken by the other thread
      service |-> "running",      \* the external process: running | exited
      eye_video |-> "absent",     \* eye0.mp4: absent | present | renamed
      timestamps |-> "absent",    \* eye0_timestamps.npy, likewise
      rpc |-> "idle",             \* position of the render (main) thread
      arg |-> NoArgs,
      published |-> {},
      ret |-> Unset,
      joins |-> 0,
      join_returns |-> 0,
      trail |-> <<>>,             \* what the join() in progress has done
      error |-> "none" ]

\* REQ socket, send: the state after thread `who' sends `subject' and moves
\* to `next'. Sending over a request that still awaits its reply is a use
\* of the socket by two threads at once: it either goes out or raises.
ReqSend(s, who, subject, next, raise) ==
    LET pcf == IF who = "tracker" THEN "tpc" ELSE "rpc"
        log == IF subject \in {"recording.started", "recording.stopped",
                               "service_process.should_stop"}
               THEN Append(s.sent, subject) ELSE s.sent
    IN  IF s.awaiting # <<>> /\ raise
        THEN IF who = "tracker"
             THEN [s EXCEPT !.tpc = "crashed"]
             ELSE [s EXCEPT !.rpc = "raised", !.error = "send"]
        ELSE [s EXCEPT
                ![pcf] = next,
                !.sent = log,
                !.pipelined = @ \/ s.awaiting # <<>>,
                !.awaiting = Append(@, [owner |-> who, subject |-> subject])]

\* what the service does with a request before it replies
Serve(s, subject) ==
    IF subject = "recording.started"
    THEN [s EXCEPT !.eye_video = "present", !.timestamps = "present"]
    ELSE IF subject = "service_process.should_stop"
         THEN [s EXCEPT !.service = "exited"]
         ELSE s

\* REQ socket, recv: thread `who' takes the reply to the oldest request
ReqRecv(s, who, next) ==
    LET pcf == IF who = "tracker" THEN "tpc" ELSE "rpc"
        req == Head(s.awaiting)
    IN  [Serve(s, req.subject) EXCEPT
            ![pcf] = next,
            !.misdelivered = @ \/ req.owner # who,
            !.awaiting = Tail(@)]

\* a reply can be received: a request is pending and the service runs
CanRecv(s) == s.awaiting # <<>> /\ s.service = "running"

\* ----------------------------------------- EyeTrackerClient: run() thread
EcStart ==
    /\ mode = "client"
    /\ ec.rpc = "idle"
    /\ ~ec.started
    /\ ec' = [ec EXCEPT !.started = TRUE, !.tpc = "sub_port_send"]
    /\ UNCHANGED <<mode, et, cr, mn>>

\* run(): the gaze file is opened and `SUB_PORT' is requested
EcRunSubPortSend ==
    /\ mode = "client"
    /\ ec.tpc = "sub_port_send"
    /\ \E raise \in BOOLEAN :
         ec' = ReqSend(ec, "tracker", "SUB_PORT", "sub_port_recv", raise)
    /\ UNCHANGED <<mode, et, cr, mn>>

\* run(): the port is received and the Msg_Receiver subscribed
EcRunSubPortRecv ==
    /\ mode = "client"
    /\ ec.tpc = "sub_port_recv"
    /\ CanRecv(ec)
    /\ ec' = ReqRecv(ec, "tracker", "while")
    /\ UNCHANGED <<mode, et, cr, mn>>

\* the service publishes a message on a subscribed topic
EcMessageArrives ==
    /\ mode = "client"
    /\ ec.service = "running"
    /\ ec.tpc \notin {"idle", "sub_port_send", "sub_port_recv"}
    /\ ec.inbox = None
    /\ ec.delivered < MaxMsgs
    /\ \E m \in Messages :
         ec' = [ec EXCEPT !.inbox = m, !.delivered = @ + 1]
    /\ UNCHANGED <<mode, et, cr, mn>>

\* `while not self.stoprequest.isSet()'
EcRunWhile ==
    /\ mode = "client"
    /\ ec.tpc = "while"
    /\ ec' = [ec EXCEPT !.tpc = IF ec.stoprequest THEN "done" ELSE "recv"]
    /\ UNCHANGED <<mode, et, cr, mn>>

\* `topic, tmp = monitor.recv()' blocks until a message is there
EcRunRecv ==
    /\ mode = "client"
    /\ ec.tpc = "recv"
    /\ ec.inbox # None
    /\ ec' = [ec EXCEPT !.msg = ec.inbox, !.inbox = None,
                        !.received = Append(@, ec.inbox),
                        !.tpc = IF ec.recording_started THEN "lock"
                                ELSE "rec_send"]
    /\ UNCHANGED <<mode, et, cr, mn>>

\* run(): the first message sends the recording.started notification
EcRunRecordSend ==
    /\ mode = "client"
    /\ ec.tpc = "rec_send"
    /\ \E raise \in BOOLEAN :
         ec' = ReqSend(ec, "tracker", "recording.started", "rec_recv", raise)
    /\ UNCHANGED <<mode, et, cr, mn>>

\* run(): its reply is received and recording_started set
EcRunRecordRecv ==
    /\ mode = "client"
    /\ ec.tpc = "rec_recv"
    /\ CanRecv(ec)
    /\ ec' = [ReqRecv(ec, "tracker", "lock") EXCEPT
                !.recording_started = TRUE]
    /\ UNCHANGED <<mode, et, cr, mn>>

\* run(): `with self.lock:'
EcRunLock ==
    /\ mode = "client"
    /\ ec.tpc = "lock"
    /\ ec.lock = "free"
    /\ ec' = [ec EXCEPT !.lock = "tracker", !.tpc = "assign"]
    /\ UNCHANGED <<mode, et, cr, mn>>

\* run(): pupil or gaze is rebound to the payload, the lock released
EcRunAssign ==
    /\ mode = "client"
    /\ ec.tpc = "assign"
    /\ ec' = [ec EXCEPT
                !.pupil = IF ec.msg.topic = "pupil"
                          THEN Publish(@, Payload(ec.msg)) ELSE @,
                !.gaze = IF IsGazeTopic(ec.msg.topic)
                         THEN Publish(@, Payload(ec.msg)) ELSE @,
                !.published = @ \cup {Payload(ec.msg)},
                !.lock = WithLockExit(@),
                !.tpc = "gaze_write"]
    /\ UNCHANGED <<mode, et, cr, mn>>

\* run(): a gaze message is appended to the gaze file
EcRunWrite ==
    /\ mode = "client"
    /\ ec.tpc = "gaze_write"
    /\ ec' = [ec EXCEPT
                !.gaze_file = IF IsGazeTopic(ec.msg.topic)
                              THEN Append(@, Payload(ec.msg)) ELSE @,
                !.msg = None,
                !.tpc = "while"]
    /\ UNCHANGED <<mode, et, cr, mn>>

\* -------------------------------------- EyeTrackerClient: render thread
\* get_pupil(): `with self.lock: return self.pupil'
EcGetPupil ==
    /\ mode = "client"
    /\ ec.rpc = "idle"
    /\ ec.lock = "free"
    /\ ec' = [ec EXCEPT !.ret = ec.pupil, !.rpc = "get"]
    /\ UNCHANGED <<mode, et, cr, mn>>

\* get_gaze(): `with self.lock: return self.gaze'
EcGetGaze ==
    /\ mode = "client"
    /\ ec.rpc = "idle"
    /\ ec.lock = "free"
    /\ ec' = [ec EXCEPT !.ret = ec.gaze, !.rpc = "get"]
    /\ UNCHANGED <<mode, et, cr, mn>>

\* GazeDrawer.draw_gazepoint(gaze) with the record get_pupil() or get_gaze()
\* has just returned: `gaze['norm_pos']' raises TypeError on None, any
\* other record is drawn
GdDrawGazepoint ==
    /\ mode = "client"
    /\ ec.rpc = "get"
    /\ ec' = IF ec.ret = None
             THEN [ec EXCEPT !.error = "draw_gazepoint", !.rpc = "raised"]
             ELSE [ec EXCEPT !.rpc = "gaze_drawn"]
    /\ UNCHANGED <<mode, et, cr, mn>>

\* a call of the render thread returns to its caller
EcReturn ==
    /\ mode = "client"
    /\ ec.rpc \in {"get", "gaze_drawn", "calibrate_return"}
    /\ ec' = [ec EXCEPT !.ret = Unset, !.arg = NoArgs, !.rpc = "idle"]
    /\ UNCHANGED <<mode, et, cr, mn>>

\* get_pupil_timestamp(): the `t' request
EcTimestampSend ==
    /\ mode = "client"
    /\ ec.rpc = "idle"
    /\ \E raise \in BOOLEAN :
         ec' = ReqSend(ec, "render", "t", "t_recv", raise)
    /\ UNCHANGED <<mode, et, cr, mn>>

\* get_pupil_timestamp(): its reply
EcTimestampRecv ==
    /\ mode = "client"
    /\ ec.rpc = "t_recv"
    /\ CanRecv(ec)
    /\ ec' = ReqRecv(ec, "render", "idle")
    /\ UNCHANGED <<mode, et, cr, mn>>

\* calibrate is called with two lists of n entries each and a frame size
EcCalibrateCall ==
    /\ mode = "client"
    /\ ec.rpc = "idle"
    /\ \E n \in DatasetSizes :
         ec' = [ec EXCEPT !.arg = <<n, n>>, !.rpc = "calibrate"]
    /\ UNCHANGED <<mode, et, cr, mn>>

\* calibrate(pupil_list, ref_list, frame_size): returns at once below the
\* minimum size, else sends the start_plugin notification
EcCalibrate ==
    /\ mode \in {"client", "calib"}
    /\ ec.rpc = "calibrate"
    /\ \/ /\ TooFew(ec.arg[1])
          /\ ec' = [ec EXCEPT !.rpc = "calibrate_return"]
       \/ /\ ~TooFew(ec.arg[1])
          /\ \E raise \in BOOLEAN :
               ec' = ReqSend(ec, "render", "start_plugin", "plugin_recv",
                             raise)
    /\ UNCHANGED <<mode, et, cr, mn>>

\* calibrate(): the reply to start_plugin
EcCalibratePluginRecv ==
    /\ mode \in {"client", "calib"}
    /\ ec.rpc = "plugin_recv"
    /\ CanRecv(ec)
    /\ ec' = ReqRecv(ec, "render", "data_send")
    /\ UNCHANGED <<mode, et, cr, mn>>

\* calibrate(): the calibrate.from_external_data notification
EcCalibrateDataSend ==
    /\ mode \in {"client", "calib"}
    /\ ec.rpc = "data_send"
    /\ \E raise \in BOOLEAN :
         ec' = ReqSend(ec, "render", "calibrate.from_external_data",
                       "data_recv", raise)
    /\ UNCHANGED <<mode, et, cr, mn>>

\* calibrate(): its reply, and the return
EcCalibrateDataRecv ==
    /\ mode \in {"client", "calib"}
    /\ ec.rpc = "data_recv"
    /\ CanRecv(ec)
    /\ ec' = ReqRecv(ec, "render", "calibrate_return")
    /\ UNCHANGED <<mode, et, cr, mn>>

\* the statements of EyeTrackerClient.join after stoprequest.set(), in
\* program order
JoinSteps ==
    <<"stop_rec_send", "stop_rec_recv", "stop_svc_send", "stop_svc_recv",
      "wait", "rename_video", "rename_timestamps", "join_thread">>

JoinAfterRenamesFirst(step) ==
    CASE step = "stop_svc_recv" -> "rename_video"
      [] step = "rename_timestamps" -> "wait"
      [] step = "wait" -> "join_thread"
      [] OTHER -> JoinSteps[(CHOOSE i \in DOMAIN JoinSteps :
                                JoinSteps[i] = step) + 1]

\* the statement join() executes after `step'
JoinAfter(step) ==
    JoinSteps[(CHOOSE i \in DOMAIN JoinSteps : JoinSteps[i] = step) + 1]

\* the join() in progress has completed a statement, unless it raised
Did(s, event) ==
    IF s.rpc = "raised" THEN s ELSE [s EXCEPT !.trail = Append(@, event)]

\* join(): `self.stoprequest.set()' and the sleep of 0.2 s
EcJoinSet ==
    /\ mode = "client"
    /\ ec.rpc = "idle"
    /\ ec.joins < MaxJoins
    /\ ec' = [ec EXCEPT !.stoprequest = TRUE, !.joins = @ + 1,
                        !.trail = <<"stoprequest.set">>,
                        !.rpc = Head(JoinSteps)]
    /\ UNCHANGED <<mode, et, cr, mn>>

\* join(): the recording.stopped notification
EcJoinStopRecordingSend ==
    /\ mode = "client"
    /\ ec.rpc = "stop_rec_send"
    /\ \E raise \in BOOLEAN :
         ec' = Did(ReqSend(ec, "render", "recording.stopped",
                           JoinAfter("stop_rec_send"), raise),
                   "send recording.stopped")
    /\ UNCHANGED <<mode, et, cr, mn>>

EcJoinStopRecordingRecv ==
    /\ mode = "client"
    /\ ec.rpc = "stop_rec_recv"
    /\ CanRecv(ec)
    /\ ec' = Did(ReqRecv(ec, "render", JoinAfter("stop_rec_recv")),
                 "recv recording.stopped")
    /\ UNCHANGED <<mode, et, cr, mn>>

\* join(): the service_process.should_stop notification
EcJoinStopServiceSend ==
    /\ mode = "client"
    /\ ec.rpc = "stop_svc_send"
    /\ \E raise \in BOOLEAN :
         ec' = Did(ReqSend(ec, "render", "service_process.should_stop",
                           JoinAfter("stop_svc_send"), raise),
                   "send service_process.should_stop")
    /\ UNCHANGED <<mode, et, cr, mn>>

EcJoinStopServiceRecv ==
    /\ mode = "client"
    /\ ec.rpc = "stop_svc_recv"
    /\ CanRecv(ec)
    /\ ec' = Did(ReqRecv(ec, "render", JoinAfter("stop_svc_recv")),
                 "recv service_process.should_stop")
    /\ UNCHANGED <<mode, et, cr, mn>>

\* join(): self._pupil_process.wait(timeout) with timeout None
EcJoinWait ==
    /\ mode = "client"
    /\ ec.rpc = "wait"
    /\ ec.service = "exited"
    /\ ec' = Did([ec EXCEPT !.rpc = JoinAfter("wait")], "wait")
    /\ UNCHANGED <<mode, et, cr, mn>>

\* os.rename of a file: the new state of the file, or "raise" when the
\* source does not exist (FileNotFoundError)
OsRename(file) == IF file = "present" THEN "renamed" ELSE "raise"

\* join(): os.rename of eye0.mp4
EcJoinRenameVideo ==
    /\ mode = "client"
    /\ ec.rpc = "rename_video"
    /\ ec' = IF OsRename(ec.eye_video) = "raise"
             THEN [ec EXCEPT !.error = "rename", !.rpc = "raised"]
             ELSE Did([ec EXCEPT !.eye_video = OsRename(@),
                                 !.rpc = JoinAfter("rename_video")],
                      "rename eye0.mp4")
    /\ UNCHANGED <<mode, et, cr, mn>>

\* join(): os.rename of eye0_timestamps.npy
EcJoinRenameTimestamps ==
    /\ mode = "client"
    /\ ec.rpc = "rename_timestamps"
    /\ ec' = IF OsRename(ec.timestamps) = "raise"
             THEN [ec EXCEPT !.error = "rename", !.rpc = "raised"]
             ELSE Did([ec EXCEPT !.timestamps = OsRename(@),
                                 !.rpc = JoinAfter("rename_timestamps")],
                      "rename eye0_timestamps.npy")
    /\ UNCHANGED <<mode, et, cr, mn>>

\* join(): Thread.join raises RuntimeError on a thread that was never
\* started, and otherwise blocks until run() has ended
EcJoinThread ==
    /\ mode = "client"
    /\ ec.rpc = "join_thread"
    /\ \/ /\ ~ec.started
          /\ ec' = [ec EXCEPT !.error = "join", !.rpc = "raised"]
       \/ /\ ec.started
          /\ ec.tpc \in {"done", "crashed"}
          /\ ec' = Did([ec EXCEPT !.join_returns = @ + 1, !.rpc = "idle"],
                       "Thread.join")
    /\ UNCHANGED <<mode, et, cr, mn>>

\* the steps of the run() thread, and of a join() in progress
EcTrackerStep ==
    \/ EcRunSubPortSend \/ EcRunSubPortRecv \/ EcRunWhile \/ EcRunRecv
    \/ EcRunRecordSend \/ EcRunRecordRecv \/ EcRunLock \/ EcRunAssign
    \/ EcRunWrite

EcJoinStep ==
    \/ EcJoinStopRecordingSend \/ EcJoinStopRecordingRecv
    \/ EcJoinStopServiceSend \/ EcJoinStopServiceRecv \/ EcJoinWait
    \/ EcJoinRenameVideo \/ EcJoinRenameTimestamps \/ EcJoinThread

\* ================================================== EyetrackerCalibration
\* MARKER_POSITIONS in quarters of the window; the model shows the first
\* NumSites of them
MARKER_POSITIONS ==
    << <<1, 2>>, <<0, 2>>, <<0, 4>>, <<2, 4>>, <<4, 4>>,
       <<4, 2>>, <<4, 0>>, <<2, 0>>, <<0, 0>>, <<3, 2>> >>

Sites == 1 .. NumSites

SiteOrdersWithRepeats == [Sites -> Sites]

\* np.random.permutation over the marker sites
SiteOrders ==
    { o \in [Sites -> Sites] : \A i, j \in Sites : o[i] = o[j] => i = j }

\* len(radius_anim): two linspaces of MARKER_DURATION_FRAMES/2 points each
AnimLen == 2 * (MARKER_DURATION_FRAMES \div 2)

\* what the tracker hands out during one run of the task, as the sequence
\* of confidences get_pupil() returns call after call ("none": no sample
\* yet; "lost": confident samples, then None from the LostTick-th call on)
Feeds == {"high", "low", "threshold", "alternating", "none", "lost"}

\* the call at which the "lost" feed starts to return None: inside the
\* sampling window of the second marker
LostTick == MARKER_DURATION_FRAMES + (MARKER_DURATION_FRAMES \div 2)

\* the dict get_pupil() returns at the tick-th call of a run
FeedPupil(feed, tick) ==
    IF feed = "none" \/ (feed = "lost" /\ tick >= LostTick) THEN None
    ELSE [norm_pos |-> 1 + (tick % 2),
          diameter |-> 30,
          confidence |->
              IF feed \in {"high", "lost"} THEN 9
              ELSE IF feed = "low" THEN 0
              ELSE IF feed = "threshold" THEN PUPIL_CONFIDENCE_THRESHOLD
              ELSE IF tick % 2 = 0 THEN 9 ELSE 0,
          timestamp |-> tick]

SamplingWindowInclusive(f, n) ==
    f >= CALIBRATION_LEAD_IN /\ f <= n - CALIBRATION_LEAD_OUT

\* `f > CALIBRATION_LEAD_IN and f < len(radius_anim)-CALIBRATION_LEAD_OUT'
SamplingWindow(f, n) ==
    f > CALIBRATION_LEAD_IN /\ f < n - CALIBRATION_LEAD_OUT

ConfidentInclusive(pupil) == pupil.confidence >= PUPIL_CONFIDENCE_THRESHOLD

\* `pupil['confidence'] > PUPIL_CONFIDENCE_THRESHOLD'
Confident(pupil) == pupil.confidence > PUPIL_CONFIDENCE_THRESHOLD

\* pos_decenter of a marker, in quarters of (1 - 2*MARKER_SIZE/size)
PosDecenter(marker_pos) == <<2 * marker_pos[1] - 4, 2 * marker_pos[2] - 4>>

\* the classes an EyetrackerCalibration is constructed with
Backends == {"EyeTracker", "EyeTrackerClient"}

\* the parameters of calibrate after self, as each class declares them
CalibrateParams(backend) ==
    IF backend = "EyeTracker"
    THEN <<"all_refs_per_flip", "all_pupils_normpos">>
    ELSE <<"pupil_list", "ref_list", "frame_size">>

\* the parameter whose length calibrate compares with the minimum size
SizeTestedParam(backend) ==
    IF backend = "EyeTracker" THEN "all_refs_per_flip" ELSE "pupil_list"

\* the parameter calibrate uses as the pupil samples
PupilParam(backend) ==
    IF backend = "EyeTracker" THEN "all_pupils_normpos" ELSE "pupil_list"

\* the parameter calibrate uses as the reference targets
RefParam(backend) ==
    IF backend = "EyeTracker" THEN "all_refs_per_flip" ELSE "ref_list"

\* position of a parameter in a parameter list
ParamIndex(params, name) == CHOOSE i \in DOMAIN params : params[i] = name

OnNoPupilBreak == "calibrate"

\* `if pupil is None: return': where _run goes on a missing sample
OnNoPupil == "aborted"

\* state of the task when _run is entered
CrInit ==
    [ pc |-> "wait",              \* wait | frame | calibrate | in_calibrate
                                  \* | done | aborted | raised
      feed |-> "high",
      waited |-> 0,               \* frames yielded waiting for the hotkey
      order |-> <<>>,             \* random_order
      idx |-> 0,                  \* position in random_order
      f |-> 0,                    \* frame index in radius_anim
      tick |-> 0,                 \* get_pupil() calls made
      all_pupils |-> <<>>,
      all_refs_per_flip |-> <<>>,
      taken |-> <<>>,             \* (site, f) at which each pair was taken
      shown |-> <<>>,             \* sites whose animation has run to its end
      backend |-> "EyeTrackerClient", \* class of self.eyetracker
      calibrate_calls |-> <<>>,   \* the calibrate calls made, see CrCalibrate
      error |-> "none" ]          \* none | TypeError

\* _run: the loop waiting for CALIBRATE_HOTKEY: a frame is yielded while the
\* key is not pressed; the key draws the permutation
CrWaitHotkey ==
    /\ mode = "calib"
    /\ cr.pc = "wait"
    /\ \/ /\ cr.waited < MaxWaitFrames
          /\ cr' = [cr EXCEPT !.waited = @ + 1]
       \/ \E o \in SiteOrders :
            cr' = [cr EXCEPT !.order = o, !.idx = 1, !.f = 0,
                             !.pc = "frame"]
    /\ UNCHANGED <<mode, et, ec, mn>>

\* _run: one frame of one marker: the marker is drawn, the pupil fetched
\* and, inside the window and above the threshold, paired with a reference
CrFrame ==
    /\ mode = "calib"
    /\ cr.pc = "frame"
    /\ LET site_id == cr.order[cr.idx]
           pupil == FeedPupil(cr.feed, cr.tick)
           keep == SamplingWindow(cr.f, AnimLen) /\ Confident(pupil)
           ref == [norm_pos |-> PosDecenter(MARKER_POSITIONS[site_id]),
                   screen_pos |-> PosDecenter(MARKER_POSITIONS[site_id]),
                   timestamp |-> pupil.timestamp]
           last == cr.f = AnimLen - 1
       IN  IF pupil = None
           THEN cr' = [cr EXCEPT !.tick = @ + 1, !.pc = OnNoPupil]
           ELSE cr' = [cr EXCEPT
                  !.tick = @ + 1,
                  !.all_refs_per_flip = IF keep THEN Append(@, ref) ELSE @,
                  !.all_pupils = IF keep THEN Append(@, pupil) ELSE @,
                  !.taken = IF keep
                            THEN Append(@, [site |-> site_id, f |-> cr.f])
                            ELSE @,
                  !.shown = IF last THEN Append(@, site_id) ELSE @,
                  !.f = IF last THEN 0 ELSE @ + 1,
                  !.idx = IF last THEN @ + 1 ELSE @,
                  !.pc = IF last /\ cr.idx = NumSites THEN "calibrate"
                         ELSE "frame"]
    /\ UNCHANGED <<mode, et, ec, mn>>

\* _run: self.eyetracker.calibrate(all_pupils, all_refs_per_flip, size):
\* three positional arguments, bound to the parameters of the backend's
\* calibrate; a parameter list of another length raises TypeError
CrCalibrate ==
    /\ mode = "calib"
    /\ cr.pc = "calibrate"
    /\ LET args == <<"all_pupils", "all_refs_per_flip", "exp_win.size">>
           lens == <<Len(cr.all_pupils), Len(cr.all_refs_per_flip)>>
           params == CalibrateParams(cr.backend)
           bound == Len(params) = Len(args)
           call == [backend |-> cr.backend,
                    bound |-> bound,
                    tested |-> args[ParamIndex(params,
                                               SizeTestedParam(cr.backend))],
                    pupils |-> args[ParamIndex(params,
                                               PupilParam(cr.backend))],
                    refs |-> args[ParamIndex(params,
                                             RefParam(cr.backend))]]
       IN  /\ cr' = [cr EXCEPT
                       !.calibrate_calls = Append(@, call),
                       !.error = IF bound THEN @ ELSE "TypeError",
                       !.pc = IF bound THEN "in_calibrate" ELSE "raised"]
           /\ IF bound /\ cr.backend = "EyeTrackerClient"
              THEN ec' = [ec EXCEPT
                            !.arg = <<lens[ParamIndex(params, "pupil_list")],
                                      lens[ParamIndex(params, "ref_list")]>>,
                            !.rpc = "calibrate"]
              ELSE ec' = ec
    /\ UNCHANGED <<mode, et, mn>>

\* _run: calibrate has returned, the task is over
CrCalibrateReturn ==
    /\ mode = "calib"
    /\ cr.pc = "in_calibrate"
    /\ ec.rpc = "calibrate_return"
    /\ ec' = [ec EXCEPT !.ret = Unset, !.arg = NoArgs, !.rpc = "idle"]
    /\ cr' = [cr EXCEPT !.pc = "done"]
    /\ UNCHANGED <<mode, et, mn>>

\* ================================================================== main()
\* len(all_tasks)
NumTasks == 4

\* what event.getKeys(['r','s','q']) can return, as a set
KeySets == { {}, {"r"}, {"s"}, {"q"}, {"r", "q"} }

\* state of the script when main() is entered
MnInit ==
    [ pc |-> "start",             \* start | task | run | keys | draw | flush
                                  \* | unload | crashed | exited
      eyetracking |-> TRUE,       \* config.EYETRACKING
      task |-> 0,                 \* position in all_tasks
      yields |-> 0,               \* frames the running task has yielded
      use_eyetracking |-> FALSE,
      allKeys |-> {} ]

\* main(): the windows, and with config.EYETRACKING the EyeTracker is
\* constructed and its thread started
MainStart ==
    /\ mode = "main"
    /\ mn.pc = "start"
    /\ et' = IF mn.eyetracking
             THEN [et EXCEPT !.started = TRUE, !.tpc = "open"]
             ELSE et
    /\ mn' = [mn EXCEPT !.task = 1, !.pc = "task"]
    /\ UNCHANGED <<mode, ec, cr>>

\* `for task in all_tasks:' the next task is preloaded; after the last one
\* main() returns and the script ends
MainTask ==
    /\ mode = "main"
    /\ mn.pc = "task"
    /\ mn' = IF mn.task > NumTasks
             THEN [mn EXCEPT !.pc = "exited"]
             ELSE [mn EXCEPT !.use_eyetracking = mn.eyetracking,
                             !.allKeys = {},
                             !.yields = 0,
                             !.pc = "run"]
    /\ UNCHANGED <<mode, et, ec, cr>>

\* `for _ in task.run(exp_win, ctl_win):' the task yields a frame, or is
\* over (`else: break')
MainRun ==
    /\ mode = "main"
    /\ mn.pc = "run"
    /\ \/ /\ mn.yields < MaxTaskFrames
          /\ mn' = [mn EXCEPT !.yields = @ + 1, !.pc = "keys"]
       \/ mn' = [mn EXCEPT !.pc = "unload"]
    /\ UNCHANGED <<mode, et, ec, cr>>

\* the body of the loop: a global key breaks out of it, else the gaze point
\* is drawn when the task uses the eyetracker
MainKeys ==
    /\ mode = "main"
    /\ mn.pc = "keys"
    /\ et.rpc = "idle"
    /\ \E keys \in KeySets :
         /\ mn' = [mn EXCEPT !.allKeys = keys,
                             !.pc = IF keys # {} THEN "flush" ELSE "draw"]
         /\ et' = IF keys = {} /\ mn.use_eyetracking
                  THEN DrawGazepointCall(et) ELSE et
    /\ UNCHANGED <<mode, ec, cr>>

\* draw_gazepoint has returned or raised; the two windows are flipped
MainFlip ==
    /\ mode = "main"
    /\ mn.pc = "draw"
    /\ et.rpc \in {"idle", "raised"}
    /\ mn' = [mn EXCEPT !.pc = IF et.rpc = "raised" THEN "crashed"
                               ELSE "run"]
    /\ UNCHANGED <<mode, et, ec, cr>>

\* after a key: logging.flush(), then `r' runs the task again
MainFlush ==
    /\ mode = "main"
    /\ mn.pc = "flush"
    /\ mn' = IF "r" \in mn.allKeys
             THEN [mn EXCEPT !.yields = 0, !.pc = "run"]
             ELSE [mn EXCEPT !.pc = "unload"]
    /\ UNCHANGED <<mode, et, ec, cr>>

\* task.unload(); `q' leaves the task loop: main() returns, the script ends
MainUnload ==
    /\ mode = "main"
    /\ mn.pc = "unload"
    /\ mn' = IF "q" \in mn.allKeys
             THEN [mn EXCEPT !.pc = "exited"]
             ELSE [mn EXCEPT !.task = @ + 1, !.pc = "task"]
    /\ UNCHANGED <<mode, et, ec, cr>>

\* ------------------------------------------------------------ specification
Init ==
    /\ mode \in {"engine", "client", "calib", "main"}
    /\ et = EtInit
    /\ ec = EcInit
    /\ \E feed \in Feeds, backend \in Backends :
         cr = IF mode = "calib"
              THEN [CrInit EXCEPT !.feed = feed, !.backend = backend]
              ELSE CrInit
    /\ \E eyetracking \in BOOLEAN :
         mn = IF mode = "main"
              THEN [MnInit EXCEPT !.eyetracking = eyetracking]
              ELSE MnInit

Next ==
    \/ EtStart \/ EtFrameArrives
    \/ EtRunOpen \/ EtRunWhile \/ EtUpdateCapture \/ EtUpdateDetect
    \/ EtUpdateLock \/ EtUpdateAssign \/ EtUpdateMap \/ EtUpdateWrite
    \/ EtRunLog \/ EtRunMouse \/ EtRunSetRoi \/ EtRunDraw
    \/ EtGetPupil \/ EtSetRoiCall \/ EtSetRoi
    \/ EtCalibrateCall \/ EtCalibrate
    \/ EtDrawGazepoint \/ EtDrawGazepointRead \/ EtReturn
    \/ EtJoinSet \/ EtJoinThread \/ EtJoinRelease
    \/ EcStart \/ EcMessageArrives
    \/ EcRunSubPortSend \/ EcRunSubPortRecv \/ EcRunWhile \/ EcRunRecv
    \/ EcRunRecordSend \/ EcRunRecordRecv \/ EcRunLock \/ EcRunAssign
    \/ EcRunWrite
    \/ EcGetPupil \/ EcGetGaze \/ GdDrawGazepoint \/ EcReturn
    \/ EcTimestampSend \/ EcTimestampRecv
    \/ EcCalibrateCall \/ EcCalibrate \/ EcCalibratePluginRecv
    \/ EcCalibrateDataSend \/ EcCalibrateDataRecv
    \/ EcJoinSet \/ EcJoinStopRecordingSend \/ EcJoinStopRecordingRecv
    \/ EcJoinStopServiceSend \/ EcJoinStopServiceRecv \/ EcJoinWait
    \/ EcJoinRenameVideo \/ EcJoinRenameTimestamps \/ EcJoinThread
    \/ CrWaitHotkey \/ CrFrame \/ CrCalibrate \/ CrCalibrateReturn
    \/ MainStart \/ MainTask \/ MainRun \/ MainKeys \/ MainFlip
    \/ MainFlush \/ MainUnload

Spec == Init /\ [][Next]_vars

\* the threads are scheduled fairly: a thread that can take a step of run()
\* or of join() eventually takes it; the camera and the service owe nothing
FairSpec ==
    /\ Spec
    /\ WF_vars(EtTrackerStep) /\ WF_vars(EtJoinStep)
    /\ WF_vars(EcTrackerStep) /\ WF_vars(EcJoinStep)

\* ================================================================== claims
\* C1: every value get_pupil / get_gaze returns is the initial None or one
\* whole dict that a single writer step published, never a mixture of two
C1_NoTornRead ==
    /\ et.ret \in et.published \cup {None, Unset}
    /\ ec.ret \in ec.published \cup {None, Unset}

\* C1 witness: get_pupil is returning the previous sample while update()
\* holds the lock and has already bound the next one
C1_ReadBesideWrite ==
    /\ et.rpc = "get_pupil"
    /\ et.ret \in PupilSamples
    /\ et.tpc = "map"
    /\ et.pupils # et.ret

\* C2: whenever the log step of run() or draw_gazepoint sees map_fn present,
\* a pos_cal computed from a mapping exists
C2_MappingInstalledAtomically ==
    (et.started /\ et.map_fn # "unset"
        /\ (et.tpc = "log" \/ et.rpc = "draw_lock"))
    => et.pos_cal # Unset

\* C3: calibrate with fewer than 100 paired samples returns without raising,
\* installs or replaces no mapping and sends no control request
C3_SmallDatasetIsNoOp ==
    [][ /\ (et.rpc = "calibrate" /\ et'.rpc # "calibrate"
              /\ et.arg[1] < MIN_CALIBRATION_SAMPLES)
           => et' = [et EXCEPT !.rpc = "calibrate_return"]
        /\ (ec.rpc = "calibrate" /\ ec'.rpc # "calibrate"
              /\ ec.arg[1] < MIN_CALIBRATION_SAMPLES)
           => ec' = [ec EXCEPT !.rpc = "calibrate_return"] ]_vars

\* C3 witness: a call with 99 samples has returned on an engine that holds
\* a mapping from an earlier calibration
C3_SmallCallReturned ==
    /\ et.rpc = "calibrate_return"
    /\ et.arg[1] = MIN_CALIBRATION_SAMPLES - 1
    /\ et.map_fn = "fitted"

\* C4: join() raises in no lifecycle state (before start, after start,
\* repeated) and releases each resource at most once
C4_StopAlwaysSafe ==
    /\ et.error # "join"
    /\ et.videocap_closes <= 1
    /\ et.videowriter_closes <= 1
    /\ ec.error \notin {"join", "rename"}

\* C5: once join() has set the stop flag on a started tracker, the run()
\* loop ends and join() gets past its wait for the thread
C5_StopTerminates ==
    /\ (et.started /\ et.stoprequest) ~> (et.tpc \in {"done", "crashed"})
    /\ (et.started /\ et.rpc = "join_thread") ~> (et.rpc # "join_thread")
    /\ (ec.started /\ ec.stoprequest) ~> (ec.tpc \in {"done", "crashed"})

\* C6: no request goes out on the control socket while an earlier one awaits
\* its reply, and every reply is taken by the thread that sent the request
C6_StrictRequestReply ==
    /\ Len(ec.awaiting) <= 1
    /\ ~ec.pipelined
    /\ ~ec.misdelivered

\* a frame index inside the first CALIBRATION_LEAD_IN or the last
\* CALIBRATION_LEAD_OUT frames of a marker's animation
Excluded(f) ==
    f < CALIBRATION_LEAD_IN \/ f >= AnimLen - CALIBRATION_LEAD_OUT

\* C7: every pair in the dataset was taken at a frame outside the lead-in
\* and the lead-out window of its marker site
C7_NoSampleFromExclusionWindows ==
    /\ Len(cr.taken) = Len(cr.all_pupils)
    /\ Len(cr.taken) = Len(cr.all_refs_per_flip)
    /\ \A i \in 1 .. Len(cr.taken) :
         cr.taken[i].site \in Sites /\ ~Excluded(cr.taken[i].f)

\* C7 witness: the task has called calibrate after a run in which every
\* frame of every site gave a confident pupil
C7_FullRunCollected ==
    /\ cr.pc = "done"
    /\ Len(cr.all_pupils) =
         NumSites * (AnimLen - CALIBRATION_LEAD_IN - CALIBRATION_LEAD_OUT - 1)

\* a rectangle of non-positive width or non-positive height
InvalidRect(r) == r[3] - r[1] <= 0 \/ r[4] - r[2] <= 0

\* C8: a set_roi call with an invalid rectangle leaves the active region and
\* the drawn region as they were, whoever calls and however often
C8_InvalidRoiKeepsRegion ==
    [][ /\ (et.rpc = "set_roi" /\ et'.rpc # "set_roi" /\ InvalidRect(et.arg))
           => et'.roi = et.roi /\ et'.roi_stim = et.roi_stim
        /\ (et.tpc = "set_roi" /\ et'.tpc # "set_roi"
              /\ InvalidRect(et.targ))
           => et'.roi = et.roi /\ et'.roi_stim = et.roi_stim ]_vars

\* C8 witness: an invalid call has returned on a tracker whose region had
\* been changed by an earlier valid call
C8_InvalidCallReturned ==
    /\ et.rpc = "set_roi_return"
    /\ InvalidRect(et.arg)
    /\ et.roi = <<0, 0, 320, 480>>

\* C9: a frame whose capture or detection failed does not end the run() loop
C9_FrameFailureDegrades ==
    et.failed_frames > 0 => et.tpc # "crashed"

\* C10: join() does not fail on the rename of an artifact that the service
\* never produced
C10_MissingArtifactSkipped ==
    ~(ec.started /\ ec.error = "rename"
        /\ "absent" \in {ec.eye_video, ec.timestamps})

\* the payloads of the gaze-tagged messages of a sequence, in order
RECURSIVE GazePayloadsOf(_)
GazePayloadsOf(msgs) ==
    IF msgs = <<>> THEN <<>>
    ELSE IF Head(msgs).topic = "gaze"
         THEN <<Payload(Head(msgs))>> \o GazePayloadsOf(Tail(msgs))
         ELSE GazePayloadsOf(Tail(msgs))

\* the received messages whose loop iteration is over
Handled(s) ==
    IF s.msg = None THEN s.received
    ELSE SubSeq(s.received, 1, Len(s.received) - 1)

\* how many recording.started requests went out
RecordingStarts(s) ==
    Cardinality({ i \in DOMAIN s.sent : s.sent[i] = "recording.started" })

\* C11: recording.started is requested at most once, while the first
\* received message is handled, and has been requested once every handled
\* message; the gaze file holds the payloads of the handled gaze messages,
\* once each and in receive order, and no payload of a pupil message
C11_RecordOnceGazeInOrder ==
    /\ RecordingStarts(ec) <= 1
    /\ ec.tpc \in {"rec_send", "rec_recv"} => Len(ec.received) = 1
    /\ RecordingStarts(ec) = 1 => ec.received # <<>>
    /\ Handled(ec) # <<>> => RecordingStarts(ec) = 1
    /\ ec.gaze_file = GazePayloadsOf(Handled(ec))

\* C11 witness: a pupil message then a gaze message were handled; one
\* request went out and only the gaze payload is in the file
C11_PupilThenGazeHandled ==
    /\ ec.tpc = "while"
    /\ Len(ec.received) = 2
    /\ ec.received[1].topic = "pupil"
    /\ ec.received[2].topic = "gaze"
    /\ ec.gaze_file = <<Payload(ec.received[2])>>
    /\ RecordingStarts(ec) = 1

\* C12: the calibrate call of the task is accepted by the backend, whichever
\* class it is, and the backend tests the size of, and uses as pupil
\* samples, the list the task passes as pupil samples, and uses as
\* reference targets the list the task passes as references
C12_SameCalibrateContract ==
    \A i \in DOMAIN cr.calibrate_calls :
        /\ cr.calibrate_calls[i].bound
        /\ cr.calibrate_calls[i].tested = "all_pupils"
        /\ cr.calibrate_calls[i].pupils = "all_pupils"
        /\ cr.calibrate_calls[i].refs = "all_refs_per_flip"

\* a rectangle with a corner outside the camera frame
OutOfFrame(r) ==
    r[1] < 0 \/ r[2] < 0 \/ r[3] > FRAME_WIDTH \/ r[4] > FRAME_HEIGHT

\* C13: a set_roi call with a rectangle that leaves the camera frame, be its
\* width and height positive or not, leaves the active region and the drawn
\* region as they were
C13_OutOfFrameRoiKeepsRegion ==
    [][ /\ (et.rpc = "set_roi" /\ et'.rpc # "set_roi" /\ OutOfFrame(et.arg))
           => et'.roi = et.roi /\ et'.roi_stim = et.roi_stim
        /\ (et.tpc = "set_roi" /\ et'.tpc # "set_roi"
              /\ OutOfFrame(et.targ))
           => et'.roi = et.roi /\ et'.roi_stim = et.roi_stim ]_vars

\* the order of shutdown of the client
ShutdownOrder ==
    <<"stoprequest.set",
      "send recording.stopped", "recv recording.stopped",
      "send service_process.should_stop",
      "recv service_process.should_stop",
      "wait", "rename eye0.mp4", "rename eye0_timestamps.npy",
      "Thread.join">>

\* C14: what a join() of the client has done so far is always an initial
\* part of: stop flag set, recording.stopped sent and answered,
\* service_process.should_stop sent and answered, process waited for, the
\* two renames, receive thread joined; a file is renamed only once the
\* service process has exited and the thread is joined only after both
\* renames
C14_ShutdownInOrder ==
    /\ Len(ec.trail) <= Len(ShutdownOrder)
    /\ ec.trail = SubSeq(ShutdownOrder, 1, Len(ec.trail))
    /\ ec.trail # <<>> => ec.stoprequest
    /\ "renamed" \in {ec.eye_video, ec.timestamps} => ec.service = "exited"
    /\ ec.join_returns > 0
         => ec.eye_video = "renamed" /\ ec.timestamps = "renamed"

\* C14 witness: a join() has gone through the whole shutdown
C14_ShutdownCompleted ==
    /\ ec.trail = ShutdownOrder
    /\ ec.join_returns = 1
    /\ ec.service = "exited"

\* C15: when the script of main() is over, whichever way its task loop ended,
\* the join() of the tracker it started has run and released the resources;
\* and no join() runs while a task is being rendered
C15_TrackerJoinedAfterLoop ==
    /\ (mn.pc = "exited" /\ et.started)
         => /\ et.join_returns > 0
            /\ et.videocap_closes > 0
    /\ mn.pc \in {"run", "keys", "draw", "flush", "unload"} => et.joins = 0

\* the calls of get_pupil() made so far that returned None
NoneCalls(s) == { t \in 0 .. s.tick - 1 : FeedPupil(s.feed, t) = None }

\* C16: once a get_pupil() call of the task has returned None, the task is
\* over: that call was its last one and calibrate was not and is not called,
\* however many samples had been collected
C16_NoneEndsRunWithoutCalibrate ==
    NoneCalls(cr) # {}
        => /\ cr.pc = "aborted"
           /\ NoneCalls(cr) = {cr.tick - 1}
           /\ cr.calibrate_calls = <<>>

\* C16 witness: the task ended on a None that came after enough samples for
\* a calibration had been collected
C16_AbortedWithSamples ==
    /\ cr.pc = "aborted"
    /\ NoneCalls(cr) # {}
    /\ Len(cr.all_pupils) >= MIN_CALIBRATION_SAMPLES

\* every site of 1 .. NumSites occurs exactly once in the sequence
EachSiteOnce(seq) ==
    /\ Len(seq) = NumSites
    /\ \A site \in Sites : \E i \in DOMAIN seq : seq[i] = site

\* C17: as long as every get_pupil() call of the task has returned a sample:
\* while the task waits for the hotkey no marker was shown, no sample taken
\* and calibrate not called; while markers are shown, each earlier site was
\* shown for MARKER_DURATION_FRAMES frames, no site twice, and calibrate not
\* called; calibrate is called once, after the last frame of the last site,
\* when every site was shown exactly once, and then the task is over
C17_FullRunInOrder ==
    NoneCalls(cr) = {}
        => /\ cr.pc # "aborted"
           /\ cr.pc = "wait"
                => /\ cr.tick = 0 /\ cr.shown = <<>>
                   /\ cr.all_pupils = <<>> /\ cr.calibrate_calls = <<>>
           /\ cr.pc = "frame"
                => /\ cr.tick = Len(cr.shown) * MARKER_DURATION_FRAMES + cr.f
                   /\ cr.f < MARKER_DURATION_FRAMES
                   /\ \A i, j \in DOMAIN cr.shown :
                        cr.shown[i] = cr.shown[j] => i = j
                   /\ \A i \in DOMAIN cr.shown :
                        cr.shown[i] # cr.order[cr.idx]
                   /\ cr.calibrate_calls = <<>>
           /\ cr.pc \in {"calibrate", "in_calibrate", "done", "raised"}
                => /\ cr.tick = NumSites * MARKER_DURATION_FRAMES
                   /\ EachSiteOnce(cr.shown)
                   /\ Len(cr.calibrate_calls)
                        = IF cr.pc = "calibrate" THEN 0 ELSE 1

\* C17 witness: a task that waited for the hotkey, was fed a sample at every
\* frame, showed every site and returned from its one calibrate call
C17_FullRunDone ==
    /\ cr.pc = "done"
    /\ cr.waited > 0
    /\ NoneCalls(cr) = {}
    /\ EachSiteOnce(cr.shown)
    /\ Len(cr.calibrate_calls) = 1

\* the marker site on display at the tick-th get_pupil() call of a run
SiteAtTick(s, tick) == s.order[(tick \div MARKER_DURATION_FRAMES) + 1]

\* C18: the pupil list and the reference list have the same length; the
\* i-th reference has the timestamp of the i-th pupil sample and the
\* normalized position of the marker that was on display when that sample
\* was fetched; every listed sample has a confidence above the threshold
C18_PairedAndConfident ==
    /\ Len(cr.all_pupils) = Len(cr.all_refs_per_flip)
    /\ \A i \in DOMAIN cr.all_pupils :
         /\ cr.all_refs_per_flip[i].timestamp = cr.all_pupils[i].timestamp
         /\ cr.all_refs_per_flip[i].norm_pos
              = PosDecenter(MARKER_POSITIONS[
                    SiteAtTick(cr, cr.all_pupils[i].timestamp)])
         /\ cr.all_pupils[i].confidence > PUPIL_CONFIDENCE_THRESHOLD

\* C18 witness: pairs from two marker sites are in the lists of a run in
\* which samples below the threshold were dropped
C18_PairsFromTwoSites ==
    /\ cr.feed = "alternating"
    /\ cr.all_pupils # <<>>
    /\ cr.all_refs_per_flip[1].norm_pos
         # cr.all_refs_per_flip[Len(cr.all_refs_per_flip)].norm_pos

\* C19: drawing the gaze point never raises, neither EyeTracker.draw_gazepoint
\* nor GazeDrawer.draw_gazepoint, whatever estimate is or is not available
C19_OverlayNeverRaises ==
    /\ et.error # "draw_gazepoint"
    /\ ec.error # "draw_gazepoint"

\* C20: a thread of either backend holds the lock only at the statements
\* inside its `with self.lock:' block, the assignment of the snapshot and of
\* the mapped position: never while it waits for or captures a frame, runs
\* the detector, writes the video or the gaze file, logs, draws, or sends or
\* receives on a socket; so the lock is free again two steps of the thread
\* after it was taken
C20_LockOnlyAroundSnapshot ==
    /\ et.lock = "tracker" => et.tpc \in {"assign", "map"}
    /\ ec.lock = "tracker" => ec.tpc = "assign"
    /\ et.lock \in {"free", "tracker"}
    /\ ec.lock \in {"free", "tracker"}

\* C20 witness: the tracker thread holds the lock for its assignment while
\* draw_gazepoint waits to read the mapped position
C20_ReaderWaitsForWriter ==
    /\ et.lock = "tracker"
    /\ et.tpc = "map"
    /\ et.rpc = "draw_lock"

\* C21: in the order in which the client's requests went out, no
\* recording.started comes after a recording.stopped, however join() and
\* the run() thread interleave
C21_NoStartAfterStop ==
    \A i, j \in DOMAIN ec.sent :
        (ec.sent[i] = "recording.stopped" /\ ec.sent[j] = "recording.started")
            => j < i

====
